---- MODULE Spec2Model ----
(***************************************************************************)
(* Model of src/src/lp.py: the PuLP solver harness for DNN LP encodings.   *)
(*                                                                         *)
(* State: the harness object (solver selected at construction, the cache   *)
(* of per-layer problems `base_constraints`, the shared distance variable  *)
(* `d_var`), the list object that is the default value of the parameter    *)
(* `extra_constrs` of find_constrained_input, and one call frame per       *)
(* caller.  find_constrained_input is modelled statement group by          *)
(* statement group (bind/extend, add, redraw, solve, cleanup), because it  *)
(* has no exception handler: a failure leaves the state of the step it     *)
(* happened in.                                                            *)
(*                                                                         *)
(* Numbers: metric bounds and drawn values are kept in units of 1/Den, so  *)
(* that upper_bound * LB_noise (LB_noise = n/Den) is exact.                *)
(* `assert` statements are modelled as enforced (the default interpreter   *)
(* mode).                                                                  *)
(***************************************************************************)
EXTENDS Integers, Sequences, FiniteSets, TLC

VARIABLES made, solver, phase, built, base_constraints, d_var,
          default_extra_constrs, frame, ncalls

vars == <<made, solver, phase, built, base_constraints, d_var,
          default_extra_constrs, frame, ncalls>>

(***************************************************************************)
(* Bounds of the model                                                     *)
(***************************************************************************)
\* layers of the network are 0..MaxDepth
MaxDepth == 1
\* metric bounds range over (0 - NegBound)..MaxBound (whole units)
MaxBound == 1
NegBound == 0
\* LB_noise ranges over n/Den, 0 < n < Den
Den == 2
\* number of entries of the input layer's variable array
InShape == 1
\* distinct concrete inputs of the right shape
NumX == 2
\* number of constraints a metric generates per call
NumMetricCstrs == 1
\* number of find_constrained_input calls explored
MaxCalls == 2

Callers == {1, 2}
\* the caller of the one-call-at-a-time specification
SeqCaller == 1

(***************************************************************************)
(* Metric (LpLinearMetric / PulpLinearMetric)                              *)
(***************************************************************************)
\* arguments tried for LB_noise, in units of 1/Den: from below 0 to above 1
NoiseArgs == (0 - 1)..(Den + 1)

\* whole-unit values of the bounds a metric is given
BoundArgs == (0 - NegBound)..MaxBound

PulpLinearMetric_initUnchecked(n, l, u) ==
  [err |-> "ok", obj |-> << [low |-> Den * l, up |-> Den * u, LB_noise |-> n] >>]

\* PulpLinearMetric.__init__ (LB_noise = n/Den, bounds l, u):
\* assert 0 < LB_noise < 1, then the object is filled in
PulpLinearMetric_init(n, l, u) ==
  IF ~ (0 < n /\ n < Den)
  THEN [err |-> "AssertionError", obj |-> <<>>]
  ELSE [err |-> "ok", obj |-> << [low |-> Den * l, up |-> Den * u, LB_noise |-> n] >>]

\* metric objects a caller can hold: those the constructor returned, for
\* bounds with low <= up
Metrics ==
  { PulpLinearMetric_init(t[3], t[1], t[2]).obj[1] :
      t \in { t \in BoundArgs \X BoundArgs \X NoiseArgs :
                 t[1] <= t[2] /\ PulpLinearMetric_init(t[3], t[1], t[2]).err = "ok" } }

lower_bound(m) == m.low

upper_bound(m) == m.up

dist_var_name == "d"

\* the values a draw function that respects its two arguments may return
Between(a, b) == IF a <= b THEN a..b ELSE b..a

draw_lower_boundDivNoise(m) ==
  Between(lower_bound(m), (upper_bound(m) * Den) \div m.LB_noise)

draw_lower_boundNoNoise(m) == Between(lower_bound(m), upper_bound(m))

\* draw (self.lower_bound, self.upper_bound * self.LB_noise)
draw_lower_bound(m) ==
  Between(lower_bound(m), (upper_bound(m) * m.LB_noise) \div Den)


(***************************************************************************)
(* Constraints and problems (the PuLP interface the harness consumes)      *)
(***************************************************************************)
\* A constraint is [name, body]; a problem's constraint collection is a
\* function from the names present to their bodies (pulp's dict by name).
NoConstraints == [n \in {} |-> <<"", 0>>]

Names(cons) == DOMAIN cons

BaseConstraint(j) == [name |-> <<"layer", j>>, body |-> <<"base", j>>]

\* values of the parameter name_prefix
Prefixes == {"input_", "alt_"}

\* concrete inputs: NumX arrays of the input layer's shape, one of another shape
Inputs == [shape : {InShape}, val : 1..NumX] \cup {[shape |-> InShape + 1, val |-> 1]}

\* metric.pulp_constrain (d_var, in_vars, x, name_prefix): abstract in lp.py;
\* each constraint is named after name_prefix and binds d_var to x
pulp_constrain(dv, shape, x, name_prefix) ==
  [i \in 1..NumMetricCstrs |->
     [name |-> <<name_prefix, i>>, body |-> <<"dist", x.val>>]]

\* caller-supplied extra constraint lists: one with a name of its own, one
\* whose name is the name of the base constraint of layer 0
ExtraLists ==
  { << [name |-> <<"extra", 1>>, body |-> <<"extra", 1>>] >>,
    << [name |-> <<"layer", 0>>, body |-> <<"extra", 0>>] >> }

addConstraintOverwrite(cons, c) ==
  [constraints |-> (c.name :> c.body) @@ cons, err |-> "ok"]

\* problem += c : pulp refuses a name that is already on the problem
addConstraint(cons, c) ==
  IF c.name \in DOMAIN cons
  THEN [constraints |-> cons, err |-> "PulpError"]
  ELSE [constraints |-> (c.name :> c.body) @@ cons, err |-> "ok"]

RECURSIVE AddAll(_, _, _)
\* for c in cstrs: problem += c, stopping at the first failure
AddAll(cons, cs, i) ==
  IF i > Len(cs) THEN [constraints |-> cons, err |-> "ok"]
  ELSE LET r == addConstraint(cons, cs[i])
       IN  IF r.err # "ok" THEN r ELSE AddAll(r.constraints, cs, i + 1)

\* del problem.constraints[c.name]
delConstraint(cons, c) ==
  IF c.name \notin DOMAIN cons
  THEN [constraints |-> cons, err |-> "KeyError"]
  ELSE [constraints |-> [n \in (DOMAIN cons) \ {c.name} |-> cons[n]], err |-> "ok"]

RECURSIVE DelAll(_, _, _)
\* for c in cstrs: del problem.constraints[c.name], stopping at the first failure
DelAll(cons, cs, i) ==
  IF i > Len(cs) THEN [constraints |-> cons, err |-> "ok"]
  ELSE LET r == delConstraint(cons, cs[i])
       IN  IF r.err # "ok" THEN r ELSE DelAll(r.constraints, cs, i + 1)

(***************************************************************************)
(* Construction: PulpSolver4DNN.__init__                                   *)
(***************************************************************************)
NoSolver == "<unset>"

try_solvers ==
  << "PYGLPK", "CPLEX_PY", "CPLEX_DLL", "GUROBI", "CPLEX_CMD", "GUROBI_CMD",
     "COIN_CMD", "GLPK_CMD", "CHOCO_CMD", "PULP_CHOCO_CMD", "PULP_CBC_CMD" >>

\* backends that list_solvers (onlyAvailable = True) may report
Backends == {"PULP_CBC_CMD"}

\* backend names used as candidates and as available backends when the
\* constructor is exercised on its own
CandidateNames == {"PYGLPK", "GUROBI", "PULP_CBC_CMD"}

\* values of the parameter try_solvers: the default, and every ordering of
\* every subset of CandidateNames
TryLists ==
  {try_solvers} \cup
  { t \in UNION { [1..n -> CandidateNames] : n \in 0..Cardinality(CandidateNames) } :
      \A i, j \in DOMAIN t : t[i] = t[j] => i = j }

\* what the last constructor call was given and what it did
NothingMade ==
  [kind |-> "none", n |-> 0, l |-> 0, u |-> 0, err |-> "", obj |-> <<>>,
   try |-> <<>>, available |-> {}]

RECURSIVE select_solverLast(_, _, _)
select_solverLast(try, available, i) ==
  IF i > Len(try) THEN NoSolver
  ELSE LET later == select_solverLast(try, available, i + 1)
       IN  IF later # NoSolver THEN later
           ELSE IF try[i] \in available THEN try[i] ELSE NoSolver

RECURSIVE select_solver(_, _, _)
\* for solver in try_solvers: if solver in available_solvers: ...; break
select_solver(try, available, i) ==
  IF i > Len(try) THEN NoSolver
  ELSE IF try[i] \in available THEN try[i]
  ELSE select_solver(try, available, i + 1)

(***************************************************************************)
(* Call frames                                                             *)
(***************************************************************************)
NoCL == [layer_index |-> 0, relu |-> TRUE]

IdleFrame ==
  [pc |-> "idle", cl |-> NoCL, key |-> 0,
   metric |-> [low |-> 0, up |-> 0, LB_noise |-> 1],
   x |-> [shape |-> InShape, val |-> 1], name_prefix |-> "input_",
   useDefault |-> FALSE, cstrs |-> <<>>,
   entry |-> NoConstraints, entryLow |-> 0, drawn |-> <<>>, invoked |-> FALSE,
   status |-> "", result |-> <<>>, err |-> "", prev |-> <<>>, last |-> <<>>]

\* no call in flight: never called, for_layer failed, or the call has ended
AtRest(f) == f.pc \in {"idle", "nolayer", "returned", "raised"}

\* the list object the frame's `cstrs` (and `extra_constrs`) is bound to
Cstrs(c) == IF frame[c].useDefault THEN default_extra_constrs ELSE frame[c].cstrs

Init ==
  /\ \E av \in SUBSET Backends :
       /\ solver = select_solver(try_solvers, av, 1)
       /\ made = [NothingMade EXCEPT !.kind = "harness", !.try = try_solvers,
                                     !.available = av]
  /\ phase = "constructed"
  /\ built = [first |-> 0, upto |-> 0]
  /\ base_constraints = [k \in {} |-> [constraints |-> NoConstraints, objective |-> "None"]]
  /\ d_var = [lowBound |-> 0, upBound |-> 0]
  /\ default_extra_constrs = <<>>
  /\ frame = [c \in Callers |-> IdleFrame]
  /\ ncalls = 0

(***************************************************************************)
(* setup                                                                   *)
(***************************************************************************)
\* pulp_encoding.create_base_problem: one problem per depth first..upto, with
\* the constraints of the layers first..depth and no objective yet
create_base_problem(first, upto) ==
  [k \in first..upto |->
     [constraints |-> [n \in { BaseConstraint(j).name : j \in first..k } |-> <<"base", n[2]>>],
      objective |-> "None"]]

add_objectiveDeepestOnly(problems) ==
  [k \in DOMAIN problems |->
     IF \A j \in DOMAIN problems : j <= k
     THEN [problems[k] EXCEPT !.objective = dist_var_name] ELSE problems[k]]

\* for _, p in self.base_constraints.items (): p += self.d_var
add_objective(problems) ==
  [k \in DOMAIN problems |-> [problems[k] EXCEPT !.objective = dist_var_name]]

Setup ==
  /\ phase = "constructed"
  /\ \E metric \in Metrics, first \in 0..MaxDepth, upto \in 0..MaxDepth :
       /\ first <= upto
       /\ \E lb \in draw_lower_bound(metric) :
            d_var' = [lowBound |-> lb, upBound |-> upper_bound(metric)]
       /\ built' = [first |-> first, upto |-> upto]
       /\ base_constraints' = add_objective(create_base_problem(first, upto))
  /\ phase' = "ready"
  /\ UNCHANGED <<made, solver, default_extra_constrs, frame, ncalls>>

(***************************************************************************)
(* for_layer                                                               *)
(***************************************************************************)
\* layer handles: layer_index, and whether activation_is_relu (cl.layer)
CLs == [layer_index : 0..MaxDepth, relu : BOOLEAN]

for_layer_indexSwapped(cl) == cl.layer_index + (IF cl.relu THEN 1 ELSE 0)

\* index = cl.layer_index + (0 if activation_is_relu (cl.layer) else 1)
for_layer_index(cl) == cl.layer_index + (IF cl.relu THEN 0 ELSE 1)

\* return self.base_constraints[index]: the caller obtains the problem it
\* passes to find_constrained_input, or a KeyError
for_layer(c) ==
  /\ phase = "ready"
  /\ AtRest(frame[c])
  /\ \E cl \in CLs :
       LET index == for_layer_index(cl)
           f == [IdleFrame EXCEPT !.cl = cl, !.last = frame[c].last]
       IN  frame' = [frame EXCEPT ![c] =
                       IF index \in DOMAIN base_constraints
                       THEN [f EXCEPT !.pc = "lookedup", !.key = index]
                       ELSE [f EXCEPT !.pc = "nolayer", !.err = "KeyError"]]
  /\ UNCHANGED <<made, solver, phase, built, base_constraints, d_var,
                 default_extra_constrs, ncalls>>

(***************************************************************************)
(* find_constrained_input                                                  *)
(***************************************************************************)
ShapeOkAlways(shape, x) == TRUE

\* assert (in_vars.shape == x.shape)
ShapeOk(shape, x) == shape = x.shape

\* what the frame remembers of a call when it ends: a call that omitted
\* extra_constrs and returned is recorded for the next call to compare with
Summary(f, returned) ==
  IF returned /\ f.useDefault
  THEN << [key |-> f.key, name_prefix |-> f.name_prefix, x |-> f.x, entry |-> f.entry] >>
  ELSE <<>>

Raise(f, e) == [f EXCEPT !.pc = "raised", !.err = e, !.last = Summary(f, FALSE)]

\* lines 206-210: bind the parameters, check the shape, extend the list that
\* `extra_constrs` is bound to with the metric's constraints
Call(c) ==
  /\ frame[c].pc = "lookedup"
  /\ ncalls < MaxCalls
  /\ ncalls' = ncalls + 1
  /\ \E metric \in Metrics, x \in Inputs, name_prefix \in Prefixes,
        useDefault \in BOOLEAN, own \in ExtraLists :
       LET k == frame[c].key
           f == [frame[c] EXCEPT
                   !.cl = NoCL, !.metric = metric, !.x = x, !.name_prefix = name_prefix,
                   !.useDefault = useDefault,
                   !.entry = base_constraints[k].constraints,
                   !.entryLow = d_var.lowBound,
                   !.prev = frame[c].last]
           gen == pulp_constrain(d_var, InShape, x, name_prefix)
       IN  IF ~ ShapeOk(InShape, x)
           THEN /\ frame' = [frame EXCEPT ![c] = Raise(f, "AssertionError")]
                /\ UNCHANGED default_extra_constrs
           ELSE IF useDefault
           THEN /\ default_extra_constrs' = default_extra_constrs \o gen
                /\ frame' = [frame EXCEPT ![c] = [f EXCEPT !.pc = "add"]]
           ELSE /\ frame' = [frame EXCEPT ![c] = [f EXCEPT !.pc = "add", !.cstrs = own \o gen]]
                /\ UNCHANGED default_extra_constrs
  /\ UNCHANGED <<made, solver, phase, built, base_constraints, d_var>>

\* line 212: for c in cstrs: problem += c
AddConstraints(c) ==
  /\ frame[c].pc = "add"
  /\ LET k == frame[c].key
         r == AddAll(base_constraints[k].constraints, Cstrs(c), 1)
     IN  /\ base_constraints' = [base_constraints EXCEPT ![k].constraints = r.constraints]
         /\ frame' = [frame EXCEPT ![c] =
                        IF r.err = "ok" THEN [@ EXCEPT !.pc = "draw"] ELSE Raise(@, r.err)]
  /\ UNCHANGED <<made, solver, phase, built, d_var, default_extra_constrs, ncalls>>

set_lowBoundSkipped(dv, v) == dv

set_lowBoundBoth(dv, v) == [dv EXCEPT !.lowBound = v, !.upBound = v]

\* self.d_var.lowBound = v
set_lowBound(dv, v) == [dv EXCEPT !.lowBound = v]

\* line 215: self.d_var.lowBound = metric.draw_lower_bound ()
Redraw(c) ==
  /\ frame[c].pc = "draw"
  /\ \E v \in draw_lower_bound(frame[c].metric) :
       /\ d_var' = set_lowBound(d_var, v)
       /\ frame' = [frame EXCEPT ![c] = [@ EXCEPT !.pc = "solve", !.drawn = <<v>>]]
  /\ UNCHANGED <<made, solver, phase, built, base_constraints, default_extra_constrs, ncalls>>

\* LpStatus values a solve may leave on the problem
Statuses == {"Optimal", "Not Solved", "Infeasible", "Unbounded", "Undefined"}

\* no assignment of d_var exists when its bounds are crossed
CanBe(status) == status = "Optimal" => d_var.lowBound <= d_var.upBound

ResultOfAlways(status) == <<"val", "res">>

\* lines 222-228: result = val, res when the status is 'Optimal', else None
ResultOf(status) == IF status = "Optimal" THEN <<"val", "res">> ELSE <<>>

\* lines 217-228: the objective assertion, problem.solve (self.solver), the result
Solve(c) ==
  /\ frame[c].pc = "solve"
  /\ LET k == frame[c].key
     IN  IF base_constraints[k].objective = "None"
         THEN frame' = [frame EXCEPT ![c] = Raise(@, "AssertionError")]
         ELSE IF solver = NoSolver
         THEN frame' = [frame EXCEPT ![c] = Raise(@, "AttributeError")]
         ELSE \/ frame' = [frame EXCEPT ![c] =
                             Raise([@ EXCEPT !.invoked = TRUE], "PulpSolverError")]
              \/ \E status \in Statuses :
                   /\ CanBe(status)
                   /\ frame' = [frame EXCEPT ![c] =
                                  [@ EXCEPT !.pc = "cleanup", !.invoked = TRUE,
                                            !.status = status,
                                            !.result = ResultOf(status)]]
  /\ UNCHANGED <<made, solver, phase, built, base_constraints, d_var,
                 default_extra_constrs, ncalls>>

CleanupListButLast(cs) == SubSeq(cs, 1, Len(cs) - 1)

\* the list line 230 iterates
CleanupList(cs) == cs

\* lines 230-232: for c in cstrs: del problem.constraints[c.name]; return result
Cleanup(c) ==
  /\ frame[c].pc = "cleanup"
  /\ LET k == frame[c].key
         r == DelAll(base_constraints[k].constraints, CleanupList(Cstrs(c)), 1)
     IN  /\ base_constraints' = [base_constraints EXCEPT ![k].constraints = r.constraints]
         /\ frame' = [frame EXCEPT ![c] =
                        IF r.err = "ok"
                        THEN [@ EXCEPT !.pc = "returned", !.last = Summary(frame[c], TRUE)]
                        ELSE Raise(@, r.err)]
  /\ UNCHANGED <<made, solver, phase, built, d_var, default_extra_constrs, ncalls>>

(***************************************************************************)
(* Specification: one caller, one call in flight at a time                 *)
(***************************************************************************)
Next ==
  \/ Setup
  \/ for_layer(SeqCaller)
  \/ Call(SeqCaller)
  \/ AddConstraints(SeqCaller)
  \/ Redraw(SeqCaller)
  \/ Solve(SeqCaller)
  \/ Cleanup(SeqCaller)

Spec == Init /\ [][Next]_vars

(***************************************************************************)
(* Specification of the constructors on their own                          *)
(***************************************************************************)
InitCtor ==
  /\ made = NothingMade
  /\ solver = NoSolver
  /\ phase = "none"
  /\ built = [first |-> 0, upto |-> 0]
  /\ base_constraints = [k \in {} |-> [constraints |-> NoConstraints, objective |-> "None"]]
  /\ d_var = [lowBound |-> 0, upBound |-> 0]
  /\ default_extra_constrs = <<>>
  /\ frame = [c \in Callers |-> IdleFrame]
  /\ ncalls = 0

\* PulpLinearMetric (LB_noise = n/Den, ...)
NewMetric ==
  /\ \E n \in NoiseArgs, l \in BoundArgs, u \in BoundArgs :
       LET r == PulpLinearMetric_init(n, l, u)
       IN  made' = [NothingMade EXCEPT !.kind = "metric", !.n = n, !.l = l, !.u = u,
                                       !.err = r.err, !.obj = r.obj]
  /\ UNCHANGED <<solver, phase, built, base_constraints, d_var,
                 default_extra_constrs, frame, ncalls>>

\* PulpSolver4DNN (try_solvers = try), with `available` what list_solvers reports
NewHarness ==
  /\ \E try \in TryLists, available \in SUBSET CandidateNames :
       /\ solver' = select_solver(try, available, 1)
       /\ made' = [NothingMade EXCEPT !.kind = "harness", !.try = try,
                                      !.available = available]
  /\ phase' = "constructed"
  /\ UNCHANGED <<built, base_constraints, d_var, default_extra_constrs, frame, ncalls>>

NextCtor == NewMetric \/ NewHarness

SpecCtor == InitCtor /\ [][NextCtor]_vars

(***************************************************************************)
(* Properties                                                              *)
(***************************************************************************)
\* the constraint collection of the problem a frame's call works on
ProblemOf(f) == base_constraints[f.key].constraints

\* the frame has entered find_constrained_input
Entered(f) == f.pc \in {"add", "draw", "solve", "cleanup", "returned", "raised"}

\* C1: when find_constrained_input returns, the constraint-name set of the
\* problem equals the constraint-name set it had when the call was made,
\* whatever status the solve produced and whatever extra constraints were passed.
C1_RollbackOnReturn ==
  \A c \in Callers :
    frame[c].pc = "returned" => Names(ProblemOf(frame[c])) = Names(frame[c].entry)

\* a call with a caller-supplied extra constraint has returned after a solve
\* that ended infeasible
C1_Witness ==
  \E c \in Callers :
    /\ frame[c].pc = "returned"
    /\ frame[c].status = "Infeasible"
    /\ ~ frame[c].useDefault
    /\ Len(frame[c].cstrs) = NumMetricCstrs + 1

\* C2: on every exit of find_constrained_input, by return or by exception,
\* the problem's constraint collection equals the one on entry.
C2_RollbackOnEveryExit ==
  \A c \in Callers :
    frame[c].pc \in {"returned", "raised"} => ProblemOf(frame[c]) = frame[c].entry

\* the second of two calls is the scenario of C3: both omit extra_constrs,
\* same problem, same name_prefix, different x, and the first one returned
RepeatSolve(f) ==
  /\ Entered(f)
  /\ f.useDefault
  /\ f.prev # <<>>
  /\ f.prev[1].key = f.key
  /\ f.prev[1].name_prefix = f.name_prefix
  /\ f.prev[1].x # f.x
  /\ ShapeOk(InShape, f.x)

\* C3: the second of two consecutive calls on the same problem with the same
\* name_prefix, different x and no extra constraints passed does not fail
\* while adding or removing constraints, and when it has returned the
\* problem's constraint set is the one before the first call.
C3_RepeatSolveCompletes ==
  \A c \in Callers :
    RepeatSolve(frame[c]) =>
      /\ ~ (frame[c].pc = "raised" /\ frame[c].err \in {"PulpError", "KeyError"})
      /\ frame[c].pc = "returned" => ProblemOf(frame[c]) = frame[c].prev[1].entry

\* C4: after setup every base constraint of every cached problem is on that
\* problem, with its body, in every state.
C4_BaseConstraintsKept ==
  phase = "ready" =>
    \A k \in DOMAIN base_constraints :
      \A j \in built.first..k :
        /\ BaseConstraint(j).name \in Names(base_constraints[k].constraints)
        /\ base_constraints[k].constraints[BaseConstraint(j).name] = BaseConstraint(j).body

\* cleanup has removed a caller-supplied and a metric constraint from a
\* problem that holds two base constraints
C4_Witness ==
  \E c \in Callers :
    /\ frame[c].pc = "returned"
    /\ ~ frame[c].useDefault
    /\ frame[c].key = built.first + 1
    /\ Cardinality(Names(ProblemOf(frame[c]))) = 2

\* C5: a call whose x has another shape than the input variables ends with
\* an assertion failure, the solver not invoked, the problem's constraints
\* and the distance variable's lower bound as they were on entry.
C5_ShapePrecondition ==
  \A c \in Callers :
    (Entered(frame[c]) /\ frame[c].x.shape # InShape) =>
      /\ frame[c].pc = "raised"
      /\ frame[c].err = "AssertionError"
      /\ ~ frame[c].invoked
      /\ ProblemOf(frame[c]) = frame[c].entry
      /\ d_var.lowBound = frame[c].entryLow

\* a call with an x of the wrong shape has failed, with the default list
\* already holding constraints of an earlier call
C5_Witness ==
  \E c \in Callers :
    /\ frame[c].pc = "raised"
    /\ frame[c].x.shape # InShape
    /\ frame[c].useDefault
    /\ default_extra_constrs # <<>>

\* C6: once the solve has produced a status the call does not fail; it
\* holds a pair exactly when the status is 'Optimal' and None otherwise.
C6_ResultIffOptimal ==
  \A c \in Callers :
    frame[c].status # "" =>
      /\ frame[c].pc \in {"cleanup", "returned"}
      /\ (frame[c].result # <<>>) <=> (frame[c].status = "Optimal")
      /\ frame[c].result # <<>> => Len(frame[c].result) = 2

\* a call has returned None after an unbounded solve
C6_Witness ==
  \E c \in Callers :
    /\ frame[c].pc = "returned"
    /\ frame[c].status = "Unbounded"
    /\ frame[c].result = <<>>

\* C7 as claimed: every value draw_lower_bound returns lies in
\* [lower_bound, upper_bound].
C7_BoundValidity ==
  \A c \in Callers :
    frame[c].drawn # <<>> =>
      /\ lower_bound(frame[c].metric) <= frame[c].drawn[1]
      /\ frame[c].drawn[1] <= upper_bound(frame[c].metric)

\* C7 amended: the value lies between lower_bound and upper_bound * LB_noise,
\* whichever is smaller; it lies in [lower_bound, upper_bound] when
\* upper_bound >= 0 and lower_bound <= upper_bound * LB_noise.
C7_BoundValidityAmended ==
  \A c \in Callers :
    frame[c].drawn # <<>> =>
      LET m == frame[c].metric
          v == frame[c].drawn[1]
          noisy == (m.up * m.LB_noise) \div Den
      IN  /\ (m.low <= v /\ v <= noisy) \/ (noisy <= v /\ v <= m.low)
          /\ (m.up >= 0 /\ m.low <= noisy) => (m.low <= v /\ v <= m.up)

\* the draw returned the boundary value upper_bound * LB_noise of a metric
\* with lower_bound < upper_bound * LB_noise
C7_Witness ==
  \E c \in Callers :
    /\ frame[c].drawn # <<>>
    /\ frame[c].metric.low < frame[c].drawn[1]
    /\ frame[c].drawn[1] * Den = frame[c].metric.up * frame[c].metric.LB_noise

\* C8 (state part): a successful lookup yields key layer_index for a ReLU
\* layer and layer_index + 1 otherwise, a key setup built; a failed one is a
\* KeyError for a key outside [first, upto].
C8_Lookup ==
  \A c \in Callers :
    LET f == frame[c]
        index == IF f.cl.relu THEN f.cl.layer_index ELSE f.cl.layer_index + 1
    IN  /\ f.pc = "lookedup" =>
             f.key = index /\ built.first <= index /\ index <= built.upto
        /\ f.pc = "nolayer" =>
             f.err = "KeyError" /\ (index < built.first \/ index > built.upto)

\* C8: the layer index mapping of for_layer, and for_layer leaves the cache
\* as it is.
C8_LayerIndexMapping ==
  /\ [] C8_Lookup
  /\ [][ \A c \in Callers :
            (frame'[c].pc \in {"lookedup", "nolayer"} /\ frame'[c] # frame[c])
              => base_constraints' = base_constraints ]_vars

\* a lookup for a non-ReLU layer has returned the problem of the next depth
C8_Witness ==
  \E c \in Callers :
    /\ frame[c].pc = "lookedup"
    /\ ~ frame[c].cl.relu
    /\ frame[c].key = frame[c].cl.layer_index + 1

\* C9: after setup every cached problem has the distance variable as its
\* objective, in every state.
C9_ObjectivePresence ==
  phase = "ready" =>
    /\ DOMAIN base_constraints = built.first..built.upto
    /\ \A k \in DOMAIN base_constraints :
         base_constraints[k].objective = dist_var_name

\* a call has returned on a harness whose cache holds two problems
C9_Witness ==
  /\ phase = "ready"
  /\ Cardinality(DOMAIN base_constraints) = 2
  /\ \E c \in Callers : frame[c].pc = "returned" /\ frame[c].status = "Optimal"

\* C10: a call that has reached the solver has drawn a value with the
\* call's metric, and that value is the distance variable's lower bound
\* while the solver runs, through cleanup and after the call has ended.
C10_LowerBoundRedraw ==
  \A c \in Callers :
    LET f == frame[c]
    IN  /\ (f.invoked \/ f.pc \in {"solve", "cleanup", "returned"}) => f.drawn # <<>>
        /\ f.drawn # <<>> =>
             /\ f.drawn[1] \in draw_lower_bound(f.metric)
             /\ d_var.lowBound = f.drawn[1]

\* a call has returned and left a lower bound other than the one it found
C10_Witness ==
  \E c \in Callers :
    /\ frame[c].pc = "returned"
    /\ frame[c].drawn # <<>>
    /\ d_var.lowBound # frame[c].entryLow

\* C11: constructing a metric fails exactly when LB_noise <= 0 or
\* LB_noise >= 1, and every metric object that exists has 0 < LB_noise < 1.
C11_NoiseChecked ==
  /\ made.kind = "metric" =>
       /\ (made.err = "AssertionError") <=> (made.n <= 0 \/ made.n >= Den)
       /\ (made.obj = <<>>) <=> (made.err # "ok")
       /\ made.obj # <<>> =>
            /\ made.obj[1].LB_noise = made.n
            /\ 0 < made.obj[1].LB_noise /\ made.obj[1].LB_noise < Den
  /\ \A m \in Metrics : 0 < m.LB_noise /\ m.LB_noise < Den

\* a construction with LB_noise = 1 has failed
C11_Witness ==
  /\ made.kind = "metric"
  /\ made.n = Den
  /\ made.err = "AssertionError"
  /\ made.obj = <<>>

\* C16: the constructor binds the solver to the first name of try_solvers
\* that is available, and assigns no solver when none is.
C16_FirstAvailable ==
  made.kind = "harness" =>
    LET hits == { i \in DOMAIN made.try : made.try[i] \in made.available }
    IN  IF hits = {}
        THEN solver = NoSolver
        ELSE \E i \in hits :
               /\ solver = made.try[i]
               /\ \A j \in hits : i <= j

\* two candidates are available and the solver is the earlier one, which is
\* not the first name of try_solvers
C16_Witness ==
  /\ made.kind = "harness"
  /\ Len(made.try) = 3
  /\ made.try[1] \notin made.available
  /\ made.try[2] \in made.available
  /\ made.try[3] \in made.available
  /\ solver = made.try[2]

\* the constraints that belong to a call: the extra constraints its caller
\* passed, then the ones the metric generates for its x and name_prefix
OwnCstrs(f) ==
  IF f.useDefault
  THEN pulp_constrain(d_var, InShape, f.x, f.name_prefix)
  ELSE f.cstrs

\* C12: between the adds and the cleanup of a call, the constraints added
\* to the problem since the call was made are exactly the extra constraints
\* passed to this call and the metric's constraints for this call's x.
C12_EphemeralOfThisCall ==
  \A c \in Callers :
    frame[c].pc \in {"draw", "solve", "cleanup"} =>
      LET f == frame[c]
          own == OwnCstrs(f)
      IN  /\ Names(ProblemOf(f)) \ Names(f.entry) = { own[i].name : i \in DOMAIN own }
          /\ \A i \in DOMAIN own : ProblemOf(f)[own[i].name] = own[i].body

\* C13 (state part): a returned call has left its problem's constraint
\* collection as it found it.
C13_OwnProblemRestored ==
  \A c \in Callers :
    frame[c].pc = "returned" => ProblemOf(frame[c]) = frame[c].entry

\* C13: no step of find_constrained_input changes the set of cache keys, the
\* constraints of another cached problem, an objective, the distance
\* variable's upper bound or the solver; with the problem restored on
\* return, the lower bound is the only harness state a completed call changes.
C13_FrameOfSolve ==
  /\ [] C13_OwnProblemRestored
  /\ [][ \A c \in Callers :
            (Entered(frame'[c]) /\ frame'[c] # frame[c]) =>
              /\ DOMAIN base_constraints' = DOMAIN base_constraints
              /\ \A k \in DOMAIN base_constraints :
                   /\ k # frame'[c].key => base_constraints'[k] = base_constraints[k]
                   /\ base_constraints'[k].objective = base_constraints[k].objective
              /\ d_var'.upBound = d_var.upBound
              /\ solver' = solver
              /\ built' = built
              /\ phase' = phase ]_vars

\* a call on a harness with two cached problems has returned after an
\* unsolved status and has left another lower bound than it found
C13_Witness ==
  \E c \in Callers :
    /\ frame[c].pc = "returned"
    /\ frame[c].status = "Not Solved"
    /\ Cardinality(DOMAIN base_constraints) = 2
    /\ d_var.lowBound # frame[c].entryLow

\* C14 as claimed: after setup the distance variable's lower bound is at
\* most its upper bound, in every state.
C14_BoundsOrdered ==
  phase = "ready" => d_var.lowBound <= d_var.upBound

\* C14 amended: the bounds are ordered in the state setup leaves when the
\* upper bound is >= 0, and from a call's redraw on when the call's metric
\* has 0 <= upper_bound <= the upper bound fixed at setup.
C14_BoundsOrderedAmended ==
  /\ (phase = "ready" /\ ncalls = 0 /\ d_var.upBound >= 0) =>
       d_var.lowBound <= d_var.upBound
  /\ \A c \in Callers :
       (/\ frame[c].drawn # <<>>
        /\ 0 <= upper_bound(frame[c].metric)
        /\ upper_bound(frame[c].metric) <= d_var.upBound) =>
         d_var.lowBound <= d_var.upBound

\* a call has returned whose draw hit the upper bound fixed at setup
C14_Witness ==
  \E c \in Callers :
    /\ frame[c].pc = "returned"
    /\ frame[c].drawn # <<>>
    /\ d_var.upBound > 0
    /\ upper_bound(frame[c].metric) = d_var.upBound
    /\ d_var.lowBound = d_var.upBound

\* a call is in flight between its entry and its return or exception
InFlight(f) == f.pc \in {"add", "draw", "solve", "cleanup"}

\* names on a call's problem that are neither constraints of the base
\* problem nor constraints of this call
Foreign(f) ==
  LET own == OwnCstrs(f)
      base == create_base_problem(built.first, built.upto)[f.key].constraints
  IN  Names(ProblemOf(f)) \ (Names(base) \cup { own[i].name : i \in DOMAIN own })

\* call c is about to solve with a lower bound it did not draw or with
\* constraints of another call on its problem
RaceState(c) ==
  /\ frame[c].pc = "solve"
  /\ \/ d_var.lowBound # frame[c].drawn[1]
     \/ Foreign(frame[c]) # {}

\* C15 (second half): with at most one call in flight, no call solves
\* with another call's lower bound or another call's ephemeral constraints;
\* stated of the behaviours in which one caller makes every call, one
\* after the other, and the other caller has not moved.
C15_NoRaceWhenSequential ==
  \A c \in Callers :
    (\A o \in Callers \ {c} : frame[o] = IdleFrame) => ~ RaceState(c)

(***************************************************************************)
(* Specification: two callers whose calls are interleaved step by step     *)
(***************************************************************************)
\* the calls that are interleaved: one metric with two possible draws, an
\* x of the input shape, no extra constraints of the caller's own
RaceMetric == [low |-> 0, up |-> Den * MaxBound, LB_noise |-> 1]

RaceCall(f) ==
  /\ f.metric = RaceMetric
  /\ ShapeOk(InShape, f.x)
  /\ f.useDefault \/ f.cstrs = pulp_constrain(d_var, InShape, f.x, f.name_prefix)

NextRace ==
  \/ Setup
  \/ \E c \in Callers : for_layer(c)
  \/ \E c \in Callers : Call(c) /\ RaceCall(frame'[c])
  \/ \E c \in Callers : AddConstraints(c)
  \/ \E c \in Callers : Redraw(c)
  \/ \E c \in Callers : Solve(c)
  \/ \E c \in Callers : Cleanup(c)

SpecRace == Init /\ [][NextRace]_vars

\* C15 (first half): both calls are in flight and one is about to solve
\* with the lower bound the other wrote, or with the other's constraints
C15_RaceReached ==
  \E c \in Callers : \E o \in Callers \ {c} :
    /\ InFlight(frame[o])
    /\ frame[c].pc = "solve"
    /\ \/ /\ frame[o].drawn # <<>>
          /\ d_var.lowBound = frame[o].drawn[1]
          /\ d_var.lowBound # frame[c].drawn[1]
       \/ /\ frame[o].key = frame[c].key
          /\ \E i \in DOMAIN OwnCstrs(frame[o]) :
               OwnCstrs(frame[o])[i].name \in Foreign(frame[c])

====
